---- MODULE Spec2Model ----
(***************************************************************************)
(* Model of the compare_design MCP server (src/src/index.ts): loadPNG,      *)
(* compareScreenshots and the CallToolRequestSchema handler, over a file    *)
(* system shared by all calls.  Every await of the source is a step of its  *)
(* own, so that steps of simultaneous calls interleave as on the Node.js    *)
(* event loop.                                                              *)
(*                                                                          *)
(* Numbers: a threshold is counted in tenths (1 is 0.1); a percentage is    *)
(* the fraction num/den; a colour distance is counted in hundredths.        *)
(* Pixels are opaque <<r, g, b>> triples.                                    *)
(***************************************************************************)
EXTENDS Integers, Sequences, FiniteSets, TLC

\* ---------------------------------------------------------------- bounds
MaxPixels == 4
NumCalls == 2

\* ------------------------------------------------------------- optionals
\* An optional argument is <<>> when omitted and <<v>> when given.
Truthy(opt) == opt # <<>> /\ opt[1] # ""

\* ---------------------------------------------------------------- rasters
Palette == {<<255, 0, 0>>, <<0, 0, 255>>}

RECURSIVE SeqsOfLen(_, _)
SeqsOfLen(S, n) ==
  IF n = 0 THEN {<<>>}
  ELSE {Append(s, x) : s \in SeqsOfLen(S, n - 1), x \in S}

Shapes == {wh \in (1..MaxPixels) \X (1..MaxPixels) : wh[1] * wh[2] <= MaxPixels}

Rasters ==
  UNION {{[width |-> wh[1], height |-> wh[2], data |-> d] :
            d \in SeqsOfLen(Palette, wh[1] * wh[2])} : wh \in Shapes}

NoRaster == [width |-> 0, height |-> 0, data |-> <<>>]

\* File contents: no file, a file that is not a PNG, or an encoded PNG.
Missing == [kind |-> "missing", width |-> 0, height |-> 0, data |-> <<>>]
TextFile == [kind |-> "text", width |-> 0, height |-> 0, data |-> <<>>]
PNGSyncWrite(r) ==
  [kind |-> "png", width |-> r.width, height |-> r.height, data |-> r.data]
PNGSyncRead(f) == [width |-> f.width, height |-> f.height, data |-> f.data]

Contents == {Missing, TextFile} \cup {PNGSyncWrite(r) : r \in Rasters}

\* ----------------------------------------------------------------- errors
NoError == [text |-> "", path |-> "", nums |-> <<>>]
ENOENT(p) ==
  [text |-> "ENOENT: no such file or directory, open", path |-> p, nums |-> <<>>]
InvalidSignature == [text |-> "Invalid file signature", path |-> "", nums |-> <<>>]
DimensionError(a, b) ==
  [text |-> "Image dimensions don't match: design (WxH) vs implementation (WxH)",
   path |-> "",
   nums |-> <<a.width, a.height, b.width, b.height>>]
WriteErrors == {"EACCES: permission denied, open", "ENOSPC: no space left on device, write"}
WriteError(reason, p) == [text |-> reason, path |-> p, nums |-> <<>>]

\* loadPNG: fs.readFile rejects for a missing file, PNG.sync.read throws for
\* content without the PNG signature; neither error is caught or rewrapped.
LoadPNG(files, p) ==
  LET f == files[p] IN
  IF f.kind = "missing" THEN [ok |-> FALSE, raster |-> NoRaster, error |-> ENOENT(p)]
  ELSE IF f.kind # "png" THEN [ok |-> FALSE, raster |-> NoRaster, error |-> InvalidSignature]
  ELSE [ok |-> TRUE, raster |-> PNGSyncRead(f), error |-> NoError]

\* -------------------------------------------------------------- pixelmatch
\* The library call of compareScreenshots.  YIQ components of a pixel, in
\* thousandths, and the colour distance of two pixels, in hundredths.
Abs(x) == IF x < 0 THEN -x ELSE x
Rgb2y(p) == 299 * p[1] + 587 * p[2] + 114 * p[3]
Rgb2i(p) == 596 * p[1] - 274 * p[2] - 322 * p[3]
Rgb2q(p) == 211 * p[1] - 523 * p[2] + 311 * p[3]
ColorDelta(p, q) ==
  LET y == Abs(Rgb2y(p) - Rgb2y(q)) \div 1000
      i == Abs(Rgb2i(p) - Rgb2i(q)) \div 1000
      k == Abs(Rgb2q(p) - Rgb2q(q)) \div 1000
  IN 51 * y * y + 30 * i * i + 20 * k * k

\* maxDelta = 35215 * threshold * threshold, in hundredths, for a threshold
\* in tenths; no range check is made on the threshold.
MaxDelta(t) == 35215 * t * t

DiffColor == <<255, 0, 0>>
GrayPixel(p) ==
  LET val == (2295000 + Rgb2y(p)) \div 10000 IN <<val, val, val>>

PixelDiffers(p, q, t) == ColorDelta(p, q) > MaxDelta(t)

\* pixelmatch(img1, img2, output, width, height, {threshold}): the number of
\* differing pixels and the diff raster drawn into output.  Identical buffers
\* take the fast path.  The anti-aliasing test of the library needs a pixel
\* whose darker or brighter neighbour has more than two equal neighbours,
\* which no raster of a single row, a single column or 2x2 pixels has.
Pixelmatch(img1, img2, width, height, t) ==
  LET len == width * height
      differs == {n \in 1..len : PixelDiffers(img1[n], img2[n], t)}
  IN IF img1 = img2
     THEN [count |-> 0,
           diff |-> [width |-> width, height |-> height,
                     data |-> [n \in 1..len |-> GrayPixel(img1[n])]]]
     ELSE [count |-> Cardinality(differs),
           diff |-> [width |-> width, height |-> height,
                     data |-> [n \in 1..len |->
                                IF n \in differs THEN DiffColor
                                ELSE GrayPixel(img1[n])]]]

\* ------------------------------------------------------ compareScreenshots
DimensionsMatchByArea(a, b) == a.width * a.height = b.width * b.height
DimensionsMatch(a, b) == a.width = b.width /\ a.height = b.height

TotalPixels(a) == a.width * a.height

\* (differentPixels / totalPixels) * 100 as a fraction; 0/0 is NaN, kept as
\* the fraction 0/0.
PercentageOfOne(d, t) == [num |-> d, den |-> t]
PercentageSimilar(d, t) == [num |-> (t - d) * 100, den |-> t]
Percentage(d, t) == [num |-> d * 100, den |-> t]

ToBase64(buffer) == [base64 |-> buffer]

\* The result literal of lines 61-65 and the branch of lines 68-74: the
\* inline field is attached only when there is no (truthy) output path.
BaseResult(design, pm) ==
  [totalPixels |-> TotalPixels(design),
   differentPixels |-> pm.count,
   differencePercentage |-> Percentage(pm.count, TotalPixels(design))]

WithDiffImageAlways(result, out, buffer) ==
  [totalPixels |-> result.totalPixels,
   differentPixels |-> result.differentPixels,
   differencePercentage |-> result.differencePercentage,
   diffImageBase64 |-> ToBase64(buffer)]
WithDiffImage(result, out, buffer) ==
  IF Truthy(out) THEN result
  ELSE [totalPixels |-> result.totalPixels,
        differentPixels |-> result.differentPixels,
        differencePercentage |-> result.differencePercentage,
        diffImageBase64 |-> ToBase64(buffer)]

\* What the promise of compareScreenshots settles to.
NoResult == [none |-> TRUE]
Resolved(result) == [settled |-> "resolved", result |-> result, error |-> NoError]
Rejected(error) == [settled |-> "rejected", result |-> NoResult, error |-> error]
Pending == [settled |-> "pending", result |-> NoResult, error |-> NoError]

\* await fs.writeFile(...): a failed write rejects out of compareScreenshots.
AfterWriteSwallowed(reason, result, p) == Resolved(result)
AfterWrite(reason, result, p) ==
  IF reason = "ok" THEN Resolved(result) ELSE Rejected(WriteError(reason, p))

\* ------------------------------------------------------------ the handler
DefaultThreshold == 1

RECURSIVE ToLocaleString(_)
ToLocaleString(n) ==
  IF n < 1000 THEN <<n>> ELSE Append(ToLocaleString(n \div 1000), n % 1000)

\* toFixed(2) of a fraction, in hundredths; "NaN" for 0/0.
ToFixed2(pct) ==
  IF pct.den = 0 THEN -1 ELSE (2 * 100 * pct.num + pct.den) \div (2 * pct.den)

ResponseText(result, out) ==
  [header |-> "Design Comparison Results:",
   totalPixels |-> ToLocaleString(result.totalPixels),
   differentPixels |-> ToLocaleString(result.differentPixels),
   difference |-> ToFixed2(result.differencePercentage),
   savedTo |-> IF Truthy(out) THEN out ELSE <<>>]

SuccessResponse(result, out) ==
  [content |->
     <<[type |-> "text", text |-> ResponseText(result, out)]>> \o
     (IF "diffImageBase64" \in DOMAIN result
      THEN <<[type |-> "image", data |-> result.diffImageBase64,
              mimeType |-> "image/png"]>>
      ELSE <<>>)]

ErrorResponse(error) ==
  [content |-> <<[type |-> "text",
                  text |-> [header |-> "Error comparing screenshots: ",
                            message |-> error]]>>,
   isError |-> TRUE]

\* The try/catch of lines 145-191 applied to a settled compareScreenshots.
Respond(outcome, out) ==
  IF outcome.settled = "resolved" THEN SuccessResponse(outcome.result, out)
  ELSE ErrorResponse(outcome.error)

Thrown(text, name) == [thrown |-> [text |-> text, path |-> name, nums |-> <<>>]]
NoResponse == [none |-> TRUE]

\* ------------------------------------------------------------------ state
VARIABLES
  fs,              \* the file system: path -> content
  fs0,             \* the file system when the calls were issued
  request,         \* call -> the CallTool request
  pc,              \* call -> the await the call is suspended at
  threshold,       \* frame -> threshold handed to compareScreenshots
  design,          \* frame -> const design
  implementation,  \* frame -> const implementation
  diff,            \* frame -> PNG.sync.write(diff), the buffer being written
  result,          \* frame -> const result
  outcome,         \* call -> what compareScreenshots settled to
  response,        \* call -> what the handler returned or threw
  trace,           \* call -> the library calls made so far, in order
  writeReason      \* call -> how fs.writeFile ended ("" before it has)

vars == <<fs, fs0, request, pc, threshold, design, implementation, diff,
          result, outcome, response, trace, writeReason>>

Calls == DOMAIN pc

\* The locals of compareScreenshots live in the activation of the call.
FrameShared(c) == 1
Frame(c) == c

Args(c) == request[c].arguments[1]
Out(c) == Args(c).output_diff_path

\* ------------------------------------------------------------------- Init
Paths == {"design.png", "impl.png", "diff.png"}
Thresholds == {<<>>, <<-5>>, <<0>>, <<10>>, <<15>>}
ToolArgs ==
  [design_path : {"design.png"}, implementation_path : {"impl.png"},
   output_diff_path : {<<>>, <<"">>, <<"diff.png">>}, threshold : Thresholds]
Requests ==
  {[name |-> "compare_design", arguments |-> <<a>>] : a \in ToolArgs}
  \cup {[name |-> "compare_design", arguments |-> <<>>],
        [name |-> "list_files", arguments |-> <<>>]}

InitLocals(cs) ==
  /\ fs0 = fs
  /\ pc = [c \in cs |-> "request"]
  /\ threshold = [c \in cs |-> DefaultThreshold]
  /\ design = [c \in cs |-> NoRaster]
  /\ implementation = [c \in cs |-> NoRaster]
  /\ diff = [c \in cs |-> Missing]
  /\ result = [c \in cs |-> NoResult]
  /\ outcome = [c \in cs |-> Pending]
  /\ response = [c \in cs |-> NoResponse]
  /\ trace = [c \in cs |-> <<>>]
  /\ writeReason = [c \in cs |-> ""]

Init ==
  /\ fs \in {f \in [Paths -> Contents] : f["diff.png"] = Missing}
  /\ request \in [{1} -> Requests]
  /\ InitLocals({1})

\* Simultaneous calls over two files; any output paths given are distinct.
ConcPaths == {"a.png", "b.png"}
ConcContents ==
  {Missing} \cup {PNGSyncWrite(r) : r \in {q \in Rasters : q.width * q.height = 1}}
ConcArgs ==
  [design_path : ConcPaths, implementation_path : ConcPaths,
   output_diff_path : {<<>>} \cup {<<p>> : p \in ConcPaths}, threshold : {<<>>}]
DistinctOutputs(req) ==
  \A c1, c2 \in DOMAIN req :
    (c1 # c2 /\ req[c1].arguments[1].output_diff_path # <<>>)
      => req[c1].arguments[1].output_diff_path # req[c2].arguments[1].output_diff_path

InitConc ==
  /\ fs \in [ConcPaths -> ConcContents]
  /\ request \in {req \in [1..NumCalls ->
                     {[name |-> "compare_design", arguments |-> <<a>>] : a \in ConcArgs}] :
                   DistinctOutputs(req)}
  /\ InitLocals(1..NumCalls)

\* ---------------------------------------------------------------- actions
Finish(c, o, resp) ==
  /\ outcome' = [outcome EXCEPT ![c] = o]
  /\ response' = [response EXCEPT ![c] = resp]
  /\ pc' = [pc EXCEPT ![c] = "done"]

Log(c, events) == trace' = [trace EXCEPT ![c] = @ \o events]

\* The CallToolRequestSchema handler up to its first await: the dispatch on
\* the tool name, the destructuring of the arguments (outside the try) and
\* the call of compareScreenshots, which starts reading the design file.
HandleCallTool(c) ==
  /\ pc[c] = "request"
  /\ IF request[c].name # "compare_design"
     THEN /\ Finish(c, Pending, Thrown("Unknown tool: ", request[c].name))
          /\ UNCHANGED threshold
     ELSE IF request[c].arguments = <<>>
     THEN /\ Finish(c, Pending,
                    Thrown("TypeError: Cannot destructure property 'design_path' of undefined", ""))
          /\ UNCHANGED threshold
     ELSE /\ threshold' = [threshold EXCEPT ![Frame(c)] =
                             IF Args(c).threshold = <<>> THEN DefaultThreshold
                             ELSE Args(c).threshold[1]]
          /\ pc' = [pc EXCEPT ![c] = "loadDesign"]
          /\ UNCHANGED <<outcome, response>>
  /\ UNCHANGED <<fs, fs0, request, design, implementation, diff, result,
                 trace, writeReason>>

\* const design = await loadPNG(designPath)
LoadDesign(c) ==
  /\ pc[c] = "loadDesign"
  /\ LET l == LoadPNG(fs, Args(c).design_path) IN
     /\ Log(c, <<"readFile design">> \o
               (IF l.error = ENOENT(Args(c).design_path) THEN <<>>
                ELSE <<"PNG.sync.read design">>))
     /\ IF l.ok
        THEN /\ design' = [design EXCEPT ![Frame(c)] = l.raster]
             /\ pc' = [pc EXCEPT ![c] = "loadImplementation"]
             /\ UNCHANGED <<outcome, response>>
        ELSE /\ Finish(c, Rejected(l.error), Respond(Rejected(l.error), Out(c)))
             /\ UNCHANGED design
  /\ UNCHANGED <<fs, fs0, request, threshold, implementation, diff, result,
                 writeReason>>

\* const implementation = await loadPNG(implementationPath), and everything
\* up to the next await: the dimension check, pixelmatch, the result and the
\* encoding of the diff image.
LoadImplementation(c) ==
  /\ pc[c] = "loadImplementation"
  /\ LET l == LoadPNG(fs, Args(c).implementation_path)
         d == design[Frame(c)]
         pm == Pixelmatch(d.data, l.raster.data, d.width, d.height,
                          threshold[Frame(c)])
         buffer == PNGSyncWrite(pm.diff)
         res == WithDiffImage(BaseResult(d, pm), Out(c), buffer)
         reads == <<"readFile implementation">> \o
                  (IF l.error = ENOENT(Args(c).implementation_path) THEN <<>>
                   ELSE <<"PNG.sync.read implementation">>)
     IN
     IF ~l.ok
     THEN /\ Log(c, reads)
          /\ Finish(c, Rejected(l.error), Respond(Rejected(l.error), Out(c)))
          /\ UNCHANGED <<implementation, diff, result>>
     ELSE
       /\ implementation' = [implementation EXCEPT ![Frame(c)] = l.raster]
       /\ IF ~DimensionsMatch(d, l.raster)
          THEN /\ Log(c, reads)
               /\ Finish(c, Rejected(DimensionError(d, l.raster)),
                         Respond(Rejected(DimensionError(d, l.raster)), Out(c)))
               /\ UNCHANGED <<diff, result>>
          ELSE
            /\ diff' = [diff EXCEPT ![Frame(c)] = buffer]
            /\ result' = [result EXCEPT ![Frame(c)] = res]
            /\ IF Truthy(Out(c))
               THEN /\ Log(c, reads \o <<"pixelmatch", "PNG.sync.write">>)
                    /\ pc' = [pc EXCEPT ![c] = "writeDiff"]
                    /\ UNCHANGED <<outcome, response>>
               ELSE /\ Log(c, reads \o <<"pixelmatch", "PNG.sync.write", "toString base64">>)
                    /\ Finish(c, Resolved(res), Respond(Resolved(res), Out(c)))
  /\ UNCHANGED <<fs, fs0, request, threshold, design, writeReason>>

\* await fs.writeFile(outputDiffPath, ...), then return result and the rest
\* of the handler.  The file system decides whether the write succeeds.
WriteDiff(c) ==
  /\ pc[c] = "writeDiff"
  /\ \E reason \in {"ok"} \cup WriteErrors :
       LET o == AfterWrite(reason, result[Frame(c)], Out(c)[1]) IN
       /\ writeReason' = [writeReason EXCEPT ![c] = reason]
       /\ fs' = IF reason = "ok" THEN [fs EXCEPT ![Out(c)[1]] = diff[Frame(c)]]
                ELSE fs
       /\ Log(c, <<"writeFile">>)
       /\ Finish(c, o, Respond(o, Out(c)))
  /\ UNCHANGED <<fs0, request, threshold, design, implementation, diff, result>>

Next ==
  \E c \in Calls :
    \/ HandleCallTool(c)
    \/ LoadDesign(c)
    \/ LoadImplementation(c)
    \/ WriteDiff(c)

Spec == Init /\ [][Next]_vars
SpecConc == InitConc /\ [][Next]_vars

\* ----------------------------------------------------------------- claims
Events(c) == {trace[c][n] : n \in 1..Len(trace[c])}
Succeeded(c) == outcome[c].settled = "resolved"
Failed(c) == outcome[c].settled = "rejected"
Fields(r) == DOMAIN r

C2_DimensionMismatchRejected ==
  \A c \in Calls :
    LET d == design[Frame(c)]
        i == implementation[Frame(c)]
    IN (i # NoRaster /\ (d.width # i.width \/ d.height # i.height)) =>
         /\ Failed(c)
         /\ outcome[c].result = NoResult
         /\ outcome[c].error.text =
              "Image dimensions don't match: design (WxH) vs implementation (WxH)"
         /\ outcome[c].error.nums = <<d.width, d.height, i.width, i.height>>
         /\ Events(c) \cap {"pixelmatch", "PNG.sync.write", "toString base64",
                            "writeFile"} = {}

C2_Witness ==
  \E c \in Calls :
    /\ implementation[Frame(c)] # NoRaster
    /\ design[Frame(c)].width * design[Frame(c)].height =
         implementation[Frame(c)].width * implementation[Frame(c)].height
    /\ design[Frame(c)].width # implementation[Frame(c)].width
    /\ Failed(c)

\* C3: a loadPNG that fails does so with a classified error, 'File not found'
\* for a missing path and 'Unsupported image format' for a file that is not
\* an image.
C3_ClassifiedLoadErrors ==
  \A c \in Calls :
    (Failed(c) /\ implementation[Frame(c)] = NoRaster) =>
      IF trace[c][Len(trace[c])] \in {"readFile design", "readFile implementation"}
      THEN outcome[c].error.text = "File not found"
      ELSE outcome[c].error.text = "Unsupported image format"

\* C4: a call that fails because an input path does not exist has decoded no
\* image before that failure.
C4_NoDecodeBeforeNotFound ==
  \A c \in Calls :
    (Failed(c) /\ trace[c][Len(trace[c])] \in {"readFile design", "readFile implementation"}) =>
      Events(c) \cap {"PNG.sync.read design", "PNG.sync.read implementation"} = {}

\* C5: when the write of the diff image fails, compareScreenshots rejects
\* with the I/O reason and returns no result, and the tool response is an
\* isError response whose single text item carries that reason and none of
\* the metrics.
C5_WriteFailureDiscardsMetrics ==
  \A c \in Calls :
    writeReason[c] \in WriteErrors =>
      /\ Failed(c)
      /\ outcome[c].result = NoResult
      /\ outcome[c].error = WriteError(writeReason[c], Out(c)[1])
      /\ "isError" \in Fields(response[c])
      /\ response[c].isError
      /\ Len(response[c].content) = 1
      /\ response[c].content[1].type = "text"
      /\ response[c].content[1].text.message.text = writeReason[c]
      /\ Fields(response[c].content[1].text)
           \cap {"totalPixels", "differentPixels", "difference"} = {}

C5_Witness ==
  \E c \in Calls :
    /\ writeReason[c] \in WriteErrors
    /\ result[Frame(c)] # NoResult
    /\ fs = fs0

\* What a compare_design call returns when its steps run with no other call
\* in between, over the files as they are in files, fs.writeFile ending as
\* reason says.
RunAlone(files, req, reason) ==
  LET a == req.arguments[1]
      out == a.output_diff_path
      ld == LoadPNG(files, a.design_path)
      li == LoadPNG(files, a.implementation_path)
      t == IF a.threshold = <<>> THEN DefaultThreshold ELSE a.threshold[1]
      pm == Pixelmatch(ld.raster.data, li.raster.data, ld.raster.width,
                       ld.raster.height, t)
      res == WithDiffImage(BaseResult(ld.raster, pm), out, PNGSyncWrite(pm.diff))
      o == IF ~ld.ok THEN Rejected(ld.error)
           ELSE IF ~li.ok THEN Rejected(li.error)
           ELSE IF ~DimensionsMatch(ld.raster, li.raster)
           THEN Rejected(DimensionError(ld.raster, li.raster))
           ELSE IF Truthy(out) THEN AfterWrite(reason, res, out[1])
           ELSE Resolved(res)
  IN Respond(o, out)

InputPaths(c) == {Args(c).design_path, Args(c).implementation_path}
NoOutputIsAnotherInput ==
  \A c1, c2 \in Calls :
    (c1 # c2 /\ Out(c1) # <<>>) => Out(c1)[1] \notin InputPaths(c2)

\* C6 (as stated): simultaneous calls with distinct output paths or none each
\* return what they would return if run alone on the files as they were when
\* the calls were issued, whatever the interleaving of their steps.
C6_NoInterference ==
  \A c \in Calls :
    pc[c] = "done" => response[c] = RunAlone(fs0, request[c], writeReason[c])

\* C6 (amended): simultaneous calls with distinct output paths or none, none
\* of which is the design or implementation path of another of the calls,
\* each return what they would return if run alone on the files as they were
\* when the calls were issued, whatever the interleaving of their steps.
C6_NoInterferenceApartFromFiles ==
  NoOutputIsAnotherInput =>
    \A c \in Calls :
      pc[c] = "done" => response[c] = RunAlone(fs0, request[c], writeReason[c])

C6_Witness ==
  /\ NoOutputIsAnotherInput
  /\ \E c1, c2 \in Calls :
       /\ c1 # c2
       /\ pc[c1] = "done" /\ Succeeded(c1) /\ writeReason[c1] = "ok"
       /\ pc[c2] = "loadImplementation"
       /\ design[Frame(c2)] # design[Frame(c1)]
       /\ fs # fs0

\* C7: the threshold that reaches pixelmatch lies in 0.0 .. 1.0 (an
\* out-of-range argument was clamped or the call rejected), and it is 0.1
\* when the argument was omitted.
C7_ThresholdInRange ==
  \A c \in Calls :
    "pixelmatch" \in Events(c) =>
      /\ 0 <= threshold[Frame(c)] /\ threshold[Frame(c)] <= 10
      /\ Args(c).threshold = <<>> => threshold[Frame(c)] = DefaultThreshold

C9_Identity ==
  \A c \in Calls :
    (Succeeded(c) /\ design[Frame(c)] = implementation[Frame(c)]) =>
      LET r == outcome[c].result IN
      /\ r.differentPixels = 0
      /\ r.differencePercentage.num = 0 /\ r.differencePercentage.den # 0
      /\ r.totalPixels = design[Frame(c)].width * design[Frame(c)].height

C9_Witness ==
  \E c \in Calls :
    /\ Succeeded(c)
    /\ design[Frame(c)] = implementation[Frame(c)]
    /\ Len(design[Frame(c)].data) > 1
    /\ threshold[Frame(c)] = 0

\* C10: a finished call has thrown exactly when it named a tool other than
\* compare_design, and a failure of the comparison is an isError response
\* whose only content is one text item built from the error's message.
C10_OnlyUnknownToolThrows ==
  \A c \in Calls :
    pc[c] = "done" =>
      /\ ("thrown" \in Fields(response[c])) <=> (request[c].name # "compare_design")
      /\ Failed(c) =>
           /\ "isError" \in Fields(response[c])
           /\ Len(response[c].content) = 1
           /\ response[c].content[1].type = "text"
           /\ response[c].content[1].text.message = outcome[c].error

====
